---- MODULE Spec2Model ----
(***************************************************************************)
(* k8soidcpublisher: republishing a Kubernetes API server's OIDC discovery *)
(* document and JWKS.                                                      *)
(*                                                                         *)
(* src/main.go holds two revisions of package main.                        *)
(*   r1 (lines 1-160):   warm-up fetch of metadata and JWKS, a refresh     *)
(*                       goroutine on a 5 minute ticker writing the two    *)
(*                       captured variables metadata and jwks, two         *)
(*                       handlers reading them, http.ListenAndServe.       *)
(*   r2 (lines 161-305): one metadata fetch, jwks_uri rewritten once, a    *)
(*                       discovery handler built over a k8sAPIJWKSSource,  *)
(*                       a listener goroutine under a WaitGroup, graceful  *)
(*                       shutdown on SIGTERM/SIGINT.                       *)
(* rev says which of the two a behaviour runs.                             *)
(***************************************************************************)
EXTENDS Integers, Sequences, FiniteSets, TLC

\* ---------------------------------------------------------------- bounds
MaxReq == 1      \* request goroutines that can be in flight together
MaxTicks == 2    \* ticks of the refresh ticker that are explored
MaxUpVer == 2    \* versions of the documents the upstream publishes
MaxCallers == 2  \* goroutines that call cache.Get and cache.Set
MaxVal == 2      \* distinct values that are stored in the cache

\* ------------------------------------------------------------- constants
NIL == 0         \* a nil *oidc.ProviderMetadata / *jose.JSONWebKeySet

Issuer == "https://api.example:6443"
UpstreamOrigin == "https://10.0.0.1:6443"
UpstreamJWKSPath == "/openid/v1/jwks"

\* A URL is its origin and its path; Sprintf("%s/x", issuer) and
\* issuer + "/x" build one from the issuer.
URL(origin, path) == [origin |-> origin, path |-> path]

\* jwks_uri as the API server publishes it
UpstreamJWKSURI == URL(UpstreamOrigin, UpstreamJWKSPath)

\* url.Parse(u).Path, and the path rest.Request.RequestURI keeps of a URI
URLPath(u) == u.path

\* lines 109 and 276: RequestURI("/.well-known/openid-configuration")
DiscoveryPath == "/.well-known/openid-configuration"

\* r1 line 89: metadata.Issuer + "/jwks"
JWKSPathR1 == "/jwks"
\* r2 line 229: fmt.Sprintf("%s/.well-known/jwks.json", metadata.Issuer)
JWKSPathR2 == "/.well-known/jwks.json"

\* lines 26-27
mdKey == "md"
ksKey == "ks"
CacheKeys == {mdKey, ksKey}
CacheVals == 1..MaxVal
Callers == 1..MaxCallers

Threads == {"main", "refresh"}
Reqs == 1..MaxReq
Endpoints == {"discovery", "jwks"}

VARIABLES
    rev,        \* "r1" | "r2": the revision of main that runs
    pcMain,     \* position of main
    exitCode,   \* -1 while the process runs; 0, 1, or 143 (killed by SIGTERM)
    ctxDone,    \* r2: ctx of signal.NotifyContext is cancelled
    upVer,      \* version of the documents the upstream serves now
    fl,         \* locals of discoverAPIServerOIDC, per calling goroutine
    heap,       \* objects allocated by successful fetches, by cycle
    metadata,   \* the captured variable metadata: NIL or an index of heap
    jwks,       \* r1: the captured variable jwks: NIL or an index of heap
    rpc,        \* r1: position of the refresh goroutine
    ticks,      \* r1: ticks consumed from the ticker
    srcURL,     \* r2: k8sAPIJWKSSource.url
    libJWKS,    \* r2: bytes the discovery handler last got from GetJWKS
    listener,   \* "unbound" | "listening" | "closed"
    lg,         \* r2: position of the goroutine started by wg.Go
    inShutdown, \* r2: server.Shutdown has been called
    req,        \* request goroutines
    graceExpired, \* r2: shutdownCtx expired before the server drained
    signalled,  \* a termination signal was delivered to the process
    good,       \* cycle of the last fetch that succeeded and was committed
    lastFailed, \* r1: the last completed periodic cycle was a failed fetch
    cdata,      \* cache.data: a nil map or a map from key to value
    cmu,        \* cache.dataMu: the writer that holds it, the readers that hold it
    call,       \* per caller: the cache method it is in and what it returned
    lastSet,    \* per key: the value of the latest Set call, in lock order
    crashed     \* a panic has ended the process that uses the cache

vars == <<rev, pcMain, exitCode, ctxDone, upVer, fl, heap, metadata, jwks,
          rpc, ticks, srcURL, libJWKS, listener, lg, inShutdown, req,
          graceExpired, signalled, good, lastFailed,
          cdata, cmu, call, lastSet, crashed>>

programVars == <<rev, pcMain, exitCode, ctxDone, upVer, fl, heap, metadata, jwks,
                 rpc, ticks, srcURL, libJWKS, listener, lg, inShutdown, req,
                 graceExpired, signalled, good, lastFailed>>

cacheVars == <<cdata, cmu, call, lastSet, crashed>>

\* ------------------------------------------------------------ data
NoURL == URL("", "")

\* gets: the request URIs discoverAPIServerOIDC has issued GETs for, in order
FlIdle == [stage |-> "idle", md |-> NIL, ks |-> NIL, err |-> "none", gets |-> <<>>]
FlStart == [stage |-> "getmd", md |-> NIL, ks |-> NIL, err |-> "none", gets |-> <<>>]

NoResp == [status |-> 0, doc |-> "none", cycle |-> NIL, ver |-> 0, jwksuri |-> NoURL, body |-> <<>>]
\* the connection was dropped without a response: net/http recovers a
\* handler's panic and closes the connection; process exit closes them all
Aborted == [status |-> 0, doc |-> "aborted", cycle |-> NIL, ver |-> 0, jwksuri |-> NoURL, body |-> <<>>]
\* http.Error(w, "Internal Error", http.StatusInternalServerError)
InternalError == [status |-> 500, doc |-> "Internal Error", cycle |-> NIL, ver |-> 0, jwksuri |-> NoURL, body |-> <<>>]
\* json.Encoder.Encode of a nil pointer writes "null\n" with status 200
NullDoc == [status |-> 200, doc |-> "null", cycle |-> NIL, ver |-> 0, jwksuri |-> NoURL, body |-> <<>>]

\* target: the URI this request's GetJWKS call passed to RequestURI, if any
ReqIdle == [ep |-> "none", pc |-> "idle", pL |-> NIL, resp |-> NoResp, atSignal |-> FALSE,
            target |-> NoURL]

Alive == pcMain # "exited"
InFlight(r) == req[r].pc \notin {"idle", "done"}

\* the object a successful r1 fetch returns: &md and &ks of one cycle
NewObject(f) == [mdVer |-> f.md, ksVer |-> f.ks, Issuer |-> Issuer, JWKSURI |-> UpstreamJWKSURI]

\* ------------------------------------------------------------ Init
\* map[string]interface{}: the zero value of the field is the nil map; a
\* map made with make or a literal starts empty. An absent key reads as nil.
NilMap == [isNil |-> TRUE, m |-> [k \in CacheKeys |-> NIL]]
MadeMap == [isNil |-> FALSE, m |-> [k \in CacheKeys |-> NIL]]

\* c.data[key]: reading a nil map gives the zero value
MapIndex(d, k) == IF d.isNil THEN NIL ELSE d.m[k]

\* sync.RWMutex, zero value: unlocked
Unlocked == [w |-> 0, r |-> {}]

CallIdle == [pc |-> "idle", op |-> "none", key |-> "", val |-> NIL, ret |-> NIL]

\* main never creates a cache; its zero value stands for the unused type
CacheUnused ==
    /\ cdata = NilMap
    /\ cmu = Unlocked
    /\ call = [c \in Callers |-> CallIdle]
    /\ lastSet = [k \in CacheKeys |-> NIL]
    /\ crashed = FALSE

ProgramInit ==
    /\ rev \in {"r1", "r2"}
    /\ pcMain = "prime"
    /\ exitCode = -1
    /\ ctxDone = FALSE
    /\ upVer = 1
    /\ fl = [t \in Threads |-> IF t = "main" THEN FlStart ELSE FlIdle]
    /\ heap = <<>>
    /\ metadata = NIL
    /\ jwks = NIL
    /\ rpc = "none"
    /\ ticks = 0
    /\ srcURL = NoURL
    /\ libJWKS = 0
    /\ listener = "unbound"
    /\ lg = "none"
    /\ inShutdown = FALSE
    /\ req = [r \in Reqs |-> ReqIdle]
    /\ graceExpired = FALSE
    /\ signalled = FALSE
    /\ good = NIL
    /\ lastFailed = FALSE

Init == ProgramInit /\ CacheUnused

\* ------------------------------------------------------------ process exit
\* os.Exit, log.Fatal, return from main, or death by signal: every goroutine
\* stops where it is and every open connection is dropped.
AbortInFlight(q) ==
    [r \in Reqs |-> IF InFlight(r)
                    THEN [q[r] EXCEPT !.pc = "done", !.resp = Aborted]
                    ELSE q[r]]

Exit(code) ==
    /\ pcMain' = "exited"
    /\ exitCode' = code
    /\ req' = AbortInFlight(req)
    /\ listener' = IF listener = "listening" THEN "closed" ELSE listener

\* the requests in flight when the signal arrives
MarkAtSignal(q) ==
    [r \in Reqs |-> IF InFlight(r) THEN [q[r] EXCEPT !.atSignal = TRUE] ELSE q[r]]

\* ------------------------------------------------------------ upstream
UpstreamChange ==
    /\ Alive
    /\ upVer < MaxUpVer
    /\ upVer' = upVer + 1
    /\ UNCHANGED <<cacheVars, rev, pcMain, exitCode, ctxDone, fl, heap, metadata, jwks, rpc,
                   ticks, srcURL, libJWKS, listener, lg, inShutdown, req,
                   graceExpired, signalled, good, lastFailed>>

\* ------------------------------------------------------------ discoverAPIServerOIDC
\* GET /.well-known/openid-configuration, res.Raw(), json.Unmarshal and, in
\* r1, url.Parse(md.JWKSURI).
\*   o = "ok"        the document arrives and parses
\*   o = "transport" res.Raw() returns an error
\*   o = "badjson"   json.Unmarshal fails
\*   o = "badurl"    r1: url.Parse(md.JWKSURI) fails
DiscoverGetMDResult(f, o) ==
    IF o = "ok"
    THEN [f EXCEPT !.stage = IF rev = "r1" THEN "getjwks" ELSE "ret", !.md = upVer,
                   !.gets = Append(f.gets, DiscoveryPath)]
    ELSE [f EXCEPT !.stage = "ret", !.md = NIL, !.ks = NIL, !.err = o,
                   !.gets = Append(f.gets, DiscoveryPath)]

DiscoverGetMD(t) ==
    /\ Alive
    /\ fl[t].stage = "getmd"
    /\ \E o \in (IF rev = "r1" THEN {"ok", "transport", "badjson", "badurl"}
                 ELSE {"ok", "transport", "badjson"}) :
          fl' = [fl EXCEPT ![t] = DiscoverGetMDResult(fl[t], o)]
    /\ UNCHANGED <<cacheVars, rev, pcMain, exitCode, ctxDone, upVer, heap, metadata, jwks, rpc,
                   ticks, srcURL, libJWKS, listener, lg, inShutdown, req,
                   graceExpired, signalled, good, lastFailed>>

\* r1: GET jwksurl.Path, res.Raw(), json.Unmarshal into jose.JSONWebKeySet.
\* Every error return is (nil, nil, err).
\* DiscoverGetJWKSResult as it would be with `return &md, nil, err` on the
\* JWKS error paths: the metadata of a failed cycle is handed back
DiscoverGetJWKSResultPartial(f, o) ==
    IF o = "ok"
    THEN [f EXCEPT !.stage = "ret", !.ks = upVer,
                   !.gets = Append(f.gets, URLPath(UpstreamJWKSURI))]
    ELSE [f EXCEPT !.stage = "ret", !.ks = NIL, !.err = o,
                   !.gets = Append(f.gets, URLPath(UpstreamJWKSURI))]

DiscoverGetJWKSResult(f, o) ==
    IF o = "ok"
    THEN [f EXCEPT !.stage = "ret", !.ks = upVer,
                   !.gets = Append(f.gets, URLPath(UpstreamJWKSURI))]
    ELSE [f EXCEPT !.stage = "ret", !.md = NIL, !.ks = NIL, !.err = o,
                   !.gets = Append(f.gets, URLPath(UpstreamJWKSURI))]

DiscoverGetJWKS(t) ==
    /\ Alive
    /\ rev = "r1"
    /\ fl[t].stage = "getjwks"
    /\ \E o \in {"ok", "transport", "badjson"} :
          fl' = [fl EXCEPT ![t] = DiscoverGetJWKSResult(fl[t], o)]
    /\ UNCHANGED <<cacheVars, rev, pcMain, exitCode, ctxDone, upVer, heap, metadata, jwks, rpc,
                   ticks, srcURL, libJWKS, listener, lg, inShutdown, req,
                   graceExpired, signalled, good, lastFailed>>

\* ------------------------------------------------------------ main: priming
\* PrimeFail as it would be with log.Printf in place of log.Fatalf in r1: the
\* failure is logged and main goes on
PrimeFailLogsOnly ==
    /\ pcMain = "prime"
    /\ fl["main"].stage = "ret"
    /\ fl["main"].err # "none"
    /\ IF rev = "r1"
       THEN /\ pcMain' = "go_refresh"
            /\ UNCHANGED <<exitCode, req, listener>>
       ELSE Exit(1)
    /\ UNCHANGED <<cacheVars, rev, ctxDone, upVer, fl, heap, metadata, jwks, rpc, ticks, srcURL,
                   libJWKS, lg, inShutdown, graceExpired, signalled, good, lastFailed>>

\* r1 lines 65-68 (log.Fatalf) and r2 lines 222-226 (os.Exit(1))
PrimeFail ==
    /\ pcMain = "prime"
    /\ fl["main"].stage = "ret"
    /\ fl["main"].err # "none"
    /\ Exit(1)
    /\ UNCHANGED <<cacheVars, rev, ctxDone, upVer, fl, heap, metadata, jwks, rpc, ticks, srcURL,
                   libJWKS, lg, inShutdown, graceExpired, signalled, good, lastFailed>>

\* r1 line 65: metadata, jwks := the pointers the warm-up returned
PrimeOkR1 ==
    /\ rev = "r1"
    /\ pcMain = "prime"
    /\ fl["main"].stage = "ret"
    /\ fl["main"].err = "none"
    /\ heap' = Append(heap, NewObject(fl["main"]))
    /\ metadata' = Len(heap) + 1
    /\ jwks' = Len(heap) + 1
    /\ good' = Len(heap) + 1
    /\ fl' = [fl EXCEPT !["main"] = FlIdle]
    /\ pcMain' = "go_refresh"
    /\ UNCHANGED <<cacheVars, rev, exitCode, ctxDone, upVer, rpc, ticks, srcURL, libJWKS,
                   listener, lg, inShutdown, req, graceExpired, signalled, lastFailed>>

\* r1 line 72: go func() { for range time.NewTicker(fetchInterval).C { ... } }()
SpawnRefresh ==
    /\ rev = "r1"
    /\ pcMain = "go_refresh"
    /\ rpc' = "wait"
    /\ pcMain' = "listen"
    /\ UNCHANGED <<cacheVars, rev, exitCode, ctxDone, upVer, fl, heap, metadata, jwks, ticks,
                   srcURL, libJWKS, listener, lg, inShutdown, req, graceExpired,
                   signalled, good, lastFailed>>

\* ListenAndServeR1 as it would be if the server were started ahead of the
\* warm-up
ListenAndServeR1Early ==
    /\ rev = "r1"
    /\ pcMain \in {"prime", "listen"}
    /\ listener = "unbound"
    /\ listener' = "listening"
    /\ pcMain' = IF pcMain = "listen" THEN "serving" ELSE pcMain
    /\ UNCHANGED <<cacheVars, rev, exitCode, req, ctxDone, upVer, fl, heap, metadata, jwks, rpc,
                   ticks, srcURL, libJWKS, lg, inShutdown, graceExpired, signalled,
                   good, lastFailed>>

\* r1 line 105: log.Fatal(http.ListenAndServe(*listen, nil))
ListenAndServeR1 ==
    /\ rev = "r1"
    /\ pcMain = "listen"
    /\ \/ /\ listener' = "listening"
          /\ pcMain' = "serving"
          /\ UNCHANGED <<exitCode, req>>
       \/ Exit(1)
    /\ UNCHANGED <<cacheVars, rev, ctxDone, upVer, fl, heap, metadata, jwks, rpc, ticks, srcURL,
                   libJWKS, lg, inShutdown, graceExpired, signalled, good, lastFailed>>

\* ------------------------------------------------------------ r1: refresh goroutine
\* Tick as it would be if every tick started its fetch in a goroutine of its
\* own (go func() { discover; assign }()): a tick is taken while the cycle
\* before it is still running
TickOverlapping ==
    /\ Alive
    /\ rpc \in {"wait", "fetch"}
    /\ ticks < MaxTicks
    /\ ticks' = ticks + 1
    /\ rpc' = "fetch"
    /\ fl' = [fl EXCEPT !["refresh"] = FlStart]
    /\ UNCHANGED <<cacheVars, rev, pcMain, exitCode, ctxDone, upVer, heap, metadata, jwks,
                   srcURL, libJWKS, listener, lg, inShutdown, req, graceExpired,
                   signalled, good, lastFailed>>

\* line 73: the ticker fires; line 76: the call of discoverAPIServerOIDC starts
Tick ==
    /\ Alive
    /\ rpc = "wait"
    /\ ticks < MaxTicks
    /\ ticks' = ticks + 1
    /\ rpc' = "fetch"
    /\ fl' = [fl EXCEPT !["refresh"] = FlStart]
    /\ UNCHANGED <<cacheVars, rev, pcMain, exitCode, ctxDone, upVer, heap, metadata, jwks,
                   srcURL, libJWKS, listener, lg, inShutdown, req, graceExpired,
                   signalled, good, lastFailed>>

\* lines 76-80: the error is logged and the assignment runs all the same;
\* metadata, jwks = md, ks stores metadata first, then jwks.
RefreshStoreMetadata ==
    /\ Alive
    /\ rpc = "fetch"
    /\ fl["refresh"].stage = "ret"
    /\ IF fl["refresh"].err = "none"
       THEN /\ heap' = Append(heap, NewObject(fl["refresh"]))
            /\ metadata' = Len(heap) + 1
       ELSE /\ heap' = heap
            /\ metadata' = NIL
    /\ rpc' = "store_jwks"
    /\ UNCHANGED <<cacheVars, rev, pcMain, exitCode, ctxDone, upVer, fl, jwks, ticks, srcURL,
                   libJWKS, listener, lg, inShutdown, req, graceExpired, signalled,
                   good, lastFailed>>

RefreshStoreJWKS ==
    /\ Alive
    /\ rpc = "store_jwks"
    /\ jwks' = IF fl["refresh"].err = "none" THEN Len(heap) ELSE NIL
    /\ good' = IF fl["refresh"].err = "none" THEN Len(heap) ELSE good
    /\ lastFailed' = (fl["refresh"].err # "none")
    /\ fl' = [fl EXCEPT !["refresh"] = FlIdle]
    /\ rpc' = "wait"
    /\ UNCHANGED <<cacheVars, rev, pcMain, exitCode, ctxDone, upVer, heap, metadata, ticks,
                   srcURL, libJWKS, listener, lg, inShutdown, req, graceExpired,
                   signalled>>

\* ------------------------------------------------------------ r2: main
\* line 222: metadata, err := discoverAPIServerOIDC(ctx, cl)
PrimeOkR2 ==
    /\ rev = "r2"
    /\ pcMain = "prime"
    /\ fl["main"].stage = "ret"
    /\ fl["main"].err = "none"
    /\ heap' = Append(heap, NewObject(fl["main"]))
    /\ metadata' = Len(heap) + 1
    /\ good' = Len(heap) + 1
    /\ fl' = [fl EXCEPT !["main"] = FlIdle]
    /\ pcMain' = "rewrite"
    /\ UNCHANGED <<cacheVars, rev, exitCode, ctxDone, upVer, jwks, rpc, ticks, srcURL, libJWKS,
                   listener, lg, inShutdown, req, graceExpired, signalled, lastFailed>>

\* RewriteJWKSURI with lines 228 and 229 swapped: the URI handed to the JWKS
\* source is read after the rewrite
RewriteJWKSURIThenCapture ==
    /\ rev = "r2"
    /\ pcMain = "rewrite"
    /\ srcURL' = URL(heap[metadata].Issuer, JWKSPathR2)
    /\ heap' = [heap EXCEPT ![metadata].JWKSURI = URL(heap[metadata].Issuer, JWKSPathR2)]
    /\ pcMain' = "newhandler"
    /\ UNCHANGED <<cacheVars, rev, exitCode, ctxDone, upVer, fl, metadata, jwks, rpc, ticks,
                   libJWKS, listener, lg, inShutdown, req, graceExpired, signalled,
                   good, lastFailed>>

\* lines 228-229: upstreamJWKSURI := metadata.JWKSURI, then the rewrite
RewriteJWKSURI ==
    /\ rev = "r2"
    /\ pcMain = "rewrite"
    /\ srcURL' = heap[metadata].JWKSURI
    /\ heap' = [heap EXCEPT ![metadata].JWKSURI = URL(heap[metadata].Issuer, JWKSPathR2)]
    /\ pcMain' = "newhandler"
    /\ UNCHANGED <<cacheVars, rev, exitCode, ctxDone, upVer, fl, metadata, jwks, rpc, ticks,
                   libJWKS, listener, lg, inShutdown, req, graceExpired, signalled,
                   good, lastFailed>>

\* lines 234-238: discovery.NewOIDCConfigurationHandlerWithJWKSSource; an
\* error from it ends the process with os.Exit(1)
NewHandler ==
    /\ rev = "r2"
    /\ pcMain = "newhandler"
    /\ \/ /\ pcMain' = "wg_go"
          /\ UNCHANGED <<exitCode, req, listener>>
       \/ Exit(1)
    /\ UNCHANGED <<cacheVars, rev, ctxDone, upVer, fl, heap, metadata, jwks, rpc, ticks, srcURL,
                   libJWKS, lg, inShutdown, graceExpired, signalled, good, lastFailed>>

\* line 250: wg.Go(func() { ... server.ListenAndServe() ... })
SpawnListener ==
    /\ rev = "r2"
    /\ pcMain = "wg_go"
    /\ lg' = "spawned"
    /\ pcMain' = "wait_ctx"
    /\ UNCHANGED <<cacheVars, rev, exitCode, ctxDone, upVer, fl, heap, metadata, jwks, rpc, ticks,
                   srcURL, libJWKS, listener, inShutdown, req, graceExpired,
                   signalled, good, lastFailed>>

\* ListenAndServeR2 without the os.Exit(1) of line 255: the error is logged
\* and the function passed to wg.Go returns
ListenAndServeR2LogsOnly ==
    /\ Alive
    /\ lg = "spawned"
    /\ IF inShutdown
       THEN /\ lg' = "returned"
            /\ UNCHANGED <<pcMain, exitCode, req, listener>>
       ELSE \/ /\ listener' = "listening"
               /\ lg' = "serving"
               /\ UNCHANGED <<pcMain, exitCode, req>>
            \/ /\ lg' = "failed"
               /\ UNCHANGED <<pcMain, exitCode, req, listener>>
    /\ UNCHANGED <<cacheVars, rev, ctxDone, upVer, fl, heap, metadata, jwks, rpc, ticks, srcURL,
                   libJWKS, inShutdown, graceExpired, signalled, good, lastFailed>>

\* lines 252-256: server.ListenAndServe(): http.ErrServerClosed when Shutdown
\* was already called, the listener bound, or another error and os.Exit(1)
ListenAndServeR2 ==
    /\ Alive
    /\ lg = "spawned"
    /\ IF inShutdown
       THEN /\ lg' = "returned"
            /\ UNCHANGED <<pcMain, exitCode, req, listener>>
       ELSE \/ /\ listener' = "listening"
               /\ lg' = "serving"
               /\ UNCHANGED <<pcMain, exitCode, req>>
            \/ /\ Exit(1)
               /\ lg' = "failed"
    /\ UNCHANGED <<cacheVars, rev, ctxDone, upVer, fl, heap, metadata, jwks, rpc, ticks, srcURL,
                   libJWKS, inShutdown, graceExpired, signalled, good, lastFailed>>

\* ListenAndServe returns http.ErrServerClosed once Shutdown has closed the
\* listener; the function passed to wg.Go returns
ListenerReturn ==
    /\ Alive
    /\ lg = "serving"
    /\ inShutdown
    /\ lg' = "returned"
    /\ UNCHANGED <<cacheVars, rev, pcMain, exitCode, ctxDone, upVer, fl, heap, metadata, jwks,
                   rpc, ticks, srcURL, libJWKS, listener, inShutdown, req,
                   graceExpired, signalled, good, lastFailed>>

\* line 258: <-ctx.Done()
CtxDone ==
    /\ rev = "r2"
    /\ pcMain = "wait_ctx"
    /\ ctxDone
    /\ pcMain' = "shutdown"
    /\ UNCHANGED <<cacheVars, rev, exitCode, ctxDone, upVer, fl, heap, metadata, jwks, rpc, ticks,
                   srcURL, libJWKS, listener, lg, inShutdown, req, graceExpired,
                   signalled, good, lastFailed>>

\* line 265: server.Shutdown(shutdownCtx) closes the listener at once
ShutdownBegin ==
    /\ rev = "r2"
    /\ pcMain = "shutdown"
    /\ inShutdown' = TRUE
    /\ listener' = IF listener = "listening" THEN "closed" ELSE listener
    /\ pcMain' = "draining"
    /\ UNCHANGED <<cacheVars, rev, exitCode, ctxDone, upVer, fl, heap, metadata, jwks, rpc, ticks,
                   srcURL, libJWKS, lg, req, graceExpired, signalled, good, lastFailed>>

\* Shutdown returns nil when no connection is active any more
ShutdownDrained ==
    /\ rev = "r2"
    /\ pcMain = "draining"
    /\ \A r \in Reqs : ~InFlight(r)
    /\ pcMain' = "wg_wait"
    /\ UNCHANGED <<cacheVars, rev, exitCode, ctxDone, upVer, fl, heap, metadata, jwks, rpc, ticks,
                   srcURL, libJWKS, listener, lg, inShutdown, req, graceExpired,
                   signalled, good, lastFailed>>

\* lines 262, 265-266: the 5 second timeout of shutdownCtx expires while
\* requests are still active; Shutdown returns the context's error
ShutdownTimeout ==
    /\ rev = "r2"
    /\ pcMain = "draining"
    /\ \E r \in Reqs : InFlight(r)
    /\ graceExpired' = TRUE
    /\ pcMain' = "wg_wait"
    /\ UNCHANGED <<cacheVars, rev, exitCode, ctxDone, upVer, fl, heap, metadata, jwks, rpc, ticks,
                   srcURL, libJWKS, listener, lg, inShutdown, req, signalled, good,
                   lastFailed>>

\* lines 271-273: wg.Wait() and the return from main
WgWait ==
    /\ rev = "r2"
    /\ pcMain = "wg_wait"
    /\ lg = "returned"
    /\ Exit(0)
    /\ UNCHANGED <<cacheVars, rev, ctxDone, upVer, fl, heap, metadata, jwks, rpc, ticks, srcURL,
                   libJWKS, lg, inShutdown, graceExpired, signalled, good, lastFailed>>

\* ------------------------------------------------------------ termination signal
\* r1 installs no handler: SIGTERM or SIGINT ends the process at once.
SignalR1 ==
    /\ rev = "r1"
    /\ Alive
    /\ ~signalled
    /\ signalled' = TRUE
    /\ pcMain' = "exited"
    /\ exitCode' = 143
    /\ req' = AbortInFlight(MarkAtSignal(req))
    /\ listener' = IF listener = "listening" THEN "closed" ELSE listener
    /\ UNCHANGED <<cacheVars, rev, ctxDone, upVer, fl, heap, metadata, jwks, rpc, ticks, srcURL,
                   libJWKS, lg, inShutdown, graceExpired, good, lastFailed>>

\* r2 line 188: signal.NotifyContext cancels ctx
SignalR2 ==
    /\ rev = "r2"
    /\ Alive
    /\ ~signalled
    /\ signalled' = TRUE
    /\ ctxDone' = TRUE
    /\ req' = MarkAtSignal(req)
    /\ UNCHANGED <<cacheVars, rev, pcMain, exitCode, upVer, fl, heap, metadata, jwks, rpc, ticks,
                   srcURL, libJWKS, listener, lg, inShutdown, graceExpired, good,
                   lastFailed>>

\* ------------------------------------------------------------ requests
\* the server accepts a connection and starts the handler of the endpoint
FirstStep(ep) ==
    IF rev = "r1"
    THEN (IF ep = "discovery" THEN "d_lhs" ELSE "j_enc")
    ELSE (IF ep = "discovery" THEN "serve_md" ELSE "lib_jwks")

Accept(r) ==
    /\ Alive
    /\ listener = "listening"
    /\ req[r].pc = "idle"
    /\ \E ep \in Endpoints :
          req' = [req EXCEPT ![r] = [ReqIdle EXCEPT !.ep = ep, !.pc = FirstStep(ep)]]
    /\ UNCHANGED <<cacheVars, rev, pcMain, exitCode, ctxDone, upVer, fl, heap, metadata, jwks,
                   rpc, ticks, srcURL, libJWKS, listener, lg, inShutdown,
                   graceExpired, signalled, good, lastFailed>>

\* the response has been written and the handler has returned
Release(r) ==
    /\ Alive
    /\ req[r].pc = "done"
    /\ req' = [req EXCEPT ![r] = ReqIdle]
    /\ UNCHANGED <<cacheVars, rev, pcMain, exitCode, ctxDone, upVer, fl, heap, metadata, jwks,
                   rpc, ticks, srcURL, libJWKS, listener, lg, inShutdown,
                   graceExpired, signalled, good, lastFailed>>

Respond(r, resp) == [req EXCEPT ![r].pc = "done", ![r].resp = resp]

MetadataDoc(p) ==
    [status |-> 200, doc |-> "metadata", cycle |-> p, ver |-> heap[p].mdVer,
     jwksuri |-> heap[p].JWKSURI, body |-> <<>>]

\* The JWKS body the upstream serves at version v: one key per version so
\* far, in order. A key is its kid and the members it carries: "jwk" for the
\* members jose.JSONWebKey has fields for (kty, kid, use, alg, n, e, ...),
\* "ext" for a member it has none for. Every second key carries one.
UpstreamJWKSBody(v) ==
    [i \in 1..v |-> [kid |-> i,
                     members |-> IF i % 2 = 0 THEN {"jwk", "ext"} ELSE {"jwk"}]]

\* r1 lines 133-137: json.Unmarshal(kraw, &ks) into jose.JSONWebKeySet keeps,
\* key by key and in order, what the struct has fields for
UnmarshalJWKS(raw) ==
    [i \in 1..Len(raw) |-> [kid |-> raw[i].kid, members |-> raw[i].members \cap {"jwk"}]]

\* r1 line 98: json.NewEncoder(w).Encode(jwks) writes the struct's fields
EncodeJWKS(ks) ==
    [i \in 1..Len(ks) |-> [kid |-> ks[i].kid, members |-> ks[i].members]]

\* the body of a /jwks answer: r1 serves the decoded key set re-encoded, r2
\* the raw bytes GetJWKS returned (line 304)
JWKSDoc(p, v) ==
    [status |-> 200, doc |-> "jwks", cycle |-> p, ver |-> v, jwksuri |-> NoURL,
     body |-> IF rev = "r1" THEN EncodeJWKS(UnmarshalJWKS(UpstreamJWKSBody(v)))
              ELSE UpstreamJWKSBody(v)]

\* r1 line 89, metadata.JWKSURI = metadata.Issuer + "/jwks": the pointer on
\* the left is loaded, then the right side is evaluated, then the store runs.
DiscoLoadLHS(r) ==
    /\ Alive
    /\ req[r].pc = "d_lhs"
    /\ req' = [req EXCEPT ![r].pL = metadata, ![r].pc = "d_rhs"]
    /\ UNCHANGED <<cacheVars, rev, pcMain, exitCode, ctxDone, upVer, fl, heap, metadata, jwks,
                   rpc, ticks, srcURL, libJWKS, listener, lg, inShutdown,
                   graceExpired, signalled, good, lastFailed>>

\* metadata.Issuer: a nil metadata panics; net/http drops the connection
DiscoLoadRHS(r) ==
    /\ Alive
    /\ req[r].pc = "d_rhs"
    /\ req' = IF metadata = NIL
              THEN Respond(r, Aborted)
              ELSE [req EXCEPT ![r].pc = "d_store"]
    /\ UNCHANGED <<cacheVars, rev, pcMain, exitCode, ctxDone, upVer, fl, heap, metadata, jwks,
                   rpc, ticks, srcURL, libJWKS, listener, lg, inShutdown,
                   graceExpired, signalled, good, lastFailed>>

\* the store into the object the left side's pointer names
DiscoStore(r) ==
    /\ Alive
    /\ req[r].pc = "d_store"
    /\ IF req[r].pL = NIL
       THEN /\ req' = Respond(r, Aborted)
            /\ heap' = heap
       ELSE /\ req' = [req EXCEPT ![r].pc = "d_enc"]
            /\ heap' = [heap EXCEPT ![req[r].pL].JWKSURI = URL(Issuer, JWKSPathR1)]
    /\ UNCHANGED <<cacheVars, rev, pcMain, exitCode, ctxDone, upVer, fl, metadata, jwks, rpc,
                   ticks, srcURL, libJWKS, listener, lg, inShutdown, graceExpired,
                   signalled, good, lastFailed>>

\* r1 line 90: json.NewEncoder(w).Encode(metadata) loads metadata again
DiscoEncode(r) ==
    /\ Alive
    /\ req[r].pc = "d_enc"
    /\ req' = Respond(r, IF metadata = NIL THEN NullDoc ELSE MetadataDoc(metadata))
    /\ UNCHANGED <<cacheVars, rev, pcMain, exitCode, ctxDone, upVer, fl, heap, metadata, jwks,
                   rpc, ticks, srcURL, libJWKS, listener, lg, inShutdown,
                   graceExpired, signalled, good, lastFailed>>

\* r1 line 98: json.NewEncoder(w).Encode(jwks)
JWKSEncode(r) ==
    /\ Alive
    /\ req[r].pc = "j_enc"
    /\ req' = Respond(r, IF jwks = NIL THEN NullDoc ELSE JWKSDoc(jwks, heap[jwks].ksVer))
    /\ UNCHANGED <<cacheVars, rev, pcMain, exitCode, ctxDone, upVer, fl, heap, metadata, jwks,
                   rpc, ticks, srcURL, libJWKS, listener, lg, inShutdown,
                   graceExpired, signalled, good, lastFailed>>

\* r2 lines 234, 241: discoh serves the metadata main handed to it
ServeMetadataR2(r) ==
    /\ Alive
    /\ req[r].pc = "serve_md"
    /\ req' = Respond(r, MetadataDoc(metadata))
    /\ UNCHANGED <<cacheVars, rev, pcMain, exitCode, ctxDone, upVer, fl, heap, metadata, jwks,
                   rpc, ticks, srcURL, libJWKS, listener, lg, inShutdown,
                   graceExpired, signalled, good, lastFailed>>

\* r2 lines 234, 242: discoh has the key set only through its JWKS source. It
\* answers from bytes an earlier GetJWKS returned, or calls GetJWKS now.
ServeJWKSR2(r) ==
    /\ Alive
    /\ req[r].pc = "lib_jwks"
    /\ \/ /\ libJWKS # 0
          /\ req' = Respond(r, JWKSDoc(NIL, libJWKS))
       \/ req' = [req EXCEPT ![r].pc = "getjwks"]
    /\ UNCHANGED <<cacheVars, rev, pcMain, exitCode, ctxDone, upVer, fl, heap, metadata, jwks,
                   rpc, ticks, srcURL, libJWKS, listener, lg, inShutdown,
                   graceExpired, signalled, good, lastFailed>>

\* r2 lines 296-305: k8sAPIJWKSSource.GetJWKS, one GET of s.url; the raw
\* bytes or an error
GetJWKS(r) ==
    /\ Alive
    /\ req[r].pc = "getjwks"
    /\ \/ /\ libJWKS' = upVer
          /\ req' = [Respond(r, JWKSDoc(NIL, upVer)) EXCEPT ![r].target = srcURL]
       \/ /\ libJWKS' = libJWKS
          /\ req' = [Respond(r, InternalError) EXCEPT ![r].target = srcURL]
    /\ UNCHANGED <<cacheVars, rev, pcMain, exitCode, ctxDone, upVer, fl, heap, metadata, jwks,
                   rpc, ticks, srcURL, listener, lg, inShutdown, graceExpired,
                   signalled, good, lastFailed>>

Next ==
    \/ UpstreamChange
    \/ \E t \in Threads : DiscoverGetMD(t)
    \/ \E t \in Threads : DiscoverGetJWKS(t)
    \/ PrimeFail
    \/ PrimeOkR1
    \/ SpawnRefresh
    \/ ListenAndServeR1
    \/ Tick
    \/ RefreshStoreMetadata
    \/ RefreshStoreJWKS
    \/ PrimeOkR2
    \/ RewriteJWKSURI
    \/ NewHandler
    \/ SpawnListener
    \/ ListenAndServeR2
    \/ ListenerReturn
    \/ CtxDone
    \/ ShutdownBegin
    \/ ShutdownDrained
    \/ ShutdownTimeout
    \/ WgWait
    \/ SignalR1
    \/ SignalR2
    \/ \E r \in Reqs : Accept(r)
    \/ \E r \in Reqs : Release(r)
    \/ \E r \in Reqs : DiscoLoadLHS(r)
    \/ \E r \in Reqs : DiscoLoadRHS(r)
    \/ \E r \in Reqs : DiscoStore(r)
    \/ \E r \in Reqs : DiscoEncode(r)
    \/ \E r \in Reqs : JWKSEncode(r)
    \/ \E r \in Reqs : ServeMetadataR2(r)
    \/ \E r \in Reqs : ServeJWKSR2(r)
    \/ \E r \in Reqs : GetJWKS(r)

Spec == Init /\ [][Next]_vars

\* ============================================================ cache
\* r1 lines 142-159. The type has no constructor: a cache is created as the
\* zero value (var c cache, new(cache), &cache{}), whose data is the nil
\* map, or by a literal that sets data to a made map.
CacheInit ==
    /\ ProgramInit
    /\ rev = "r1"
    /\ cdata \in {NilMap, MadeMap}
    /\ cmu = Unlocked
    /\ call = [c \in Callers |-> CallIdle]
    /\ lastSet = [k \in CacheKeys |-> NIL]
    /\ crashed = FALSE

\* line 149: Get(key) takes the read lock; it waits while a writer holds it
GetRLock(c, k) ==
    /\ ~crashed
    /\ call[c].pc = "idle"
    /\ cmu.w = 0
    /\ cmu' = [cmu EXCEPT !.r = @ \cup {c}]
    /\ call' = [call EXCEPT ![c] = [pc |-> "rlocked", op |-> "Get", key |-> k,
                                    val |-> NIL, ret |-> NIL]]
    /\ UNCHANGED <<cdata, lastSet, crashed, programVars>>

\* lines 150-151: return c.data[key], then the deferred RUnlock
GetReturn(c) ==
    /\ ~crashed
    /\ call[c].pc = "rlocked"
    /\ call' = [call EXCEPT ![c].pc = "idle", ![c].ret = MapIndex(cdata, call[c].key)]
    /\ cmu' = [cmu EXCEPT !.r = @ \ {c}]
    /\ UNCHANGED <<cdata, lastSet, crashed, programVars>>

\* line 155: Set(key, d) takes the write lock; it waits for the writer and
\* the readers that hold it
SetLock(c, k, v) ==
    /\ ~crashed
    /\ call[c].pc = "idle"
    /\ cmu = Unlocked
    /\ cmu' = [cmu EXCEPT !.w = c]
    /\ call' = [call EXCEPT ![c] = [pc |-> "locked", op |-> "Set", key |-> k,
                                    val |-> v, ret |-> NIL]]
    /\ lastSet' = [lastSet EXCEPT ![k] = v]
    /\ UNCHANGED <<cdata, crashed, programVars>>

\* lines 156-157: c.data[key] = d, then the deferred Unlock. An assignment
\* to an entry of a nil map panics; the deferred Unlock still runs, and the
\* panic, which nothing recovers, ends the process.
SetReturn(c) ==
    /\ ~crashed
    /\ call[c].pc = "locked"
    /\ IF cdata.isNil
       THEN /\ call' = [call EXCEPT ![c].pc = "panicked"]
            /\ crashed' = TRUE
            /\ cdata' = cdata
       ELSE /\ call' = [call EXCEPT ![c].pc = "idle"]
            /\ crashed' = crashed
            /\ cdata' = [cdata EXCEPT !.m[call[c].key] = call[c].val]
    /\ cmu' = [cmu EXCEPT !.w = 0]
    /\ UNCHANGED <<lastSet, programVars>>

CacheNext ==
    \/ \E c \in Callers, k \in CacheKeys : GetRLock(c, k)
    \/ \E c \in Callers : GetReturn(c)
    \/ \E c \in Callers, k \in CacheKeys, v \in CacheVals : SetLock(c, k, v)
    \/ \E c \in Callers : SetReturn(c)

CacheSpec == CacheInit /\ [][CacheNext]_vars
\* ============================================================ claims

\* the priming fetch returned an error (fl of main keeps the result)
PrimingFailed == fl["main"].stage = "ret" /\ fl["main"].err # "none"

Answered(r) == req[r].pc = "done" /\ req[r].resp.status = 200

\* C1: after a periodic fetch has failed, the cache still holds the metadata
\* and JWKS of the last fetch that succeeded.
C1_StaleServe ==
    (rev = "r1" /\ rpc = "wait" /\ lastFailed) => (metadata = good /\ jwks = good)

\* C2: every discovery document that is served carries jwks_uri = issuer +
\* the republished JWKS path, never the upstream URI.
C2_JWKSURIRewritten ==
    \A r \in Reqs :
        (req[r].pc = "done" /\ req[r].resp.doc = "metadata")
            => req[r].resp.jwksuri = URL(Issuer, IF rev = "r1" THEN JWKSPathR1 ELSE JWKSPathR2)

\* C3: once the priming fetch has failed the listener is never bound, no
\* request is ever taken, main has nothing left to do but exit, and the exit
\* status is not zero.
C3_PrimingFailureIsFatal ==
    PrimingFailed =>
        /\ listener = "unbound"
        /\ \A r \in Reqs : req[r] = ReqIdle
        /\ rpc = "none" /\ lg = "none"
        /\ pcMain \in {"prime", "exited"}
        /\ (pcMain = "prime" => ENABLED PrimeFail)
        /\ (pcMain = "exited" => exitCode \in {1, 143})

C3_Witness ==
    PrimingFailed /\ pcMain = "exited" /\ exitCode = 1 /\ listener = "unbound"

C5_SnapshotAtomic ==
    (rev = "r1" /\ metadata # NIL /\ jwks # NIL) => metadata = jwks

\* C6: whatever a running server answers is a complete document of a
\* committed fetch or the 500 with the fixed body.
C6_NoMalformedResponse ==
    \A r \in Reqs :
        (Alive /\ req[r].pc = "done")
            => req[r].resp.doc \in {"metadata", "jwks", "Internal Error"}

\* C7: no request handler is ever waiting on an upstream fetch.
C7_NoFetchOnRequestPath ==
    \A r \in Reqs : req[r].pc # "getjwks"

\* C8: while the server is up after priming, the refresh loop is running.
C8_RefreshLoopRuns ==
    (Alive /\ listener = "listening") => rpc \in {"wait", "fetch", "store_jwks"}

\* C9: a request that was in flight when the termination signal arrived is
\* not cut off before the grace period has expired.
C9_InFlightCompletes ==
    \A r \in Reqs :
        (req[r].atSignal /\ req[r].resp = Aborted) => graceExpired

\* C10: when the process has exited after a termination signal, the refresh
\* loop and the listener goroutine it started have finished.
C10_UnitsJoinedAtExit ==
    (signalled /\ pcMain = "exited") => (rpc = "none" /\ lg \in {"none", "returned"})

\* C11: once the termination signal has cancelled the shared lifetime, the
\* refresh loop is no longer inside its scheduling loop.
C11_RefreshStopsOnCancel ==
    signalled => rpc \notin {"wait", "fetch", "store_jwks"}

\* C12: the body of every /jwks answer equals the upstream JWKS body it was
\* fetched from: the same keys in the same order, every member kept.
C12_JWKSRoundTrip ==
    \A r \in Reqs :
        (req[r].pc = "done" /\ req[r].resp.doc = "jwks")
            => req[r].resp.body = UpstreamJWKSBody(req[r].resp.ver)

\* a step of a request handler of either endpoint
HandlerStep ==
    \E r \in Reqs :
        \/ DiscoLoadLHS(r) \/ DiscoLoadRHS(r) \/ DiscoStore(r) \/ DiscoEncode(r)
        \/ JWKSEncode(r) \/ ServeMetadataR2(r) \/ ServeJWKSR2(r) \/ GetJWKS(r)

\* C13: handling a request leaves the cached metadata and JWKS as they were:
\* the variables and the objects they point to.
C13_HandlersDoNotWrite ==
    [][HandlerStep => UNCHANGED <<heap, metadata, jwks>>]_vars

\* C14: a fetch cycle starts only when no cycle is in progress, the two
\* stores of a cycle follow its fetch with no other cycle in between, and
\* successive commits name objects in the order their cycles started.
C14_CommitsTotallyOrdered ==
    [][ /\ (ticks' # ticks =>
              (rpc = "wait" /\ fl["refresh"] = FlIdle /\ metadata = jwks))
        /\ (metadata' # metadata => (rpc = "fetch" \/ pcMain = "prime"))
        /\ (jwks' # jwks => (rpc = "store_jwks" \/ pcMain = "prime"))
        /\ ((metadata' # metadata /\ metadata' # NIL) =>
              (metadata' = Len(heap') /\ metadata' > metadata /\ metadata' > jwks))
        /\ ((jwks' # jwks /\ jwks' # NIL) => jwks' = metadata')
      ]_vars

\* two periodic cycles were fetched and committed one after the other
C14_Witness ==
    rev = "r1" /\ ticks = 2 /\ rpc = "wait" /\ metadata = 3 /\ jwks = 3

\* C15: one call of discoverAPIServerOIDC issues the discovery GET at most
\* once and the JWKS GET at most once, the JWKS GET only after the discovery
\* document was fetched and parsed and its jwks_uri parsed, and it returns
\* both values with no error or an error with no value.
C15_FetchAllOrNothing ==
    \A t \in Threads :
        LET f == fl[t] IN
        /\ f.gets \in {<<>>, <<DiscoveryPath>>, <<DiscoveryPath, UpstreamJWKSPath>>}
        /\ (f.stage = "getmd" => f.gets = <<>>)
        /\ (f.stage = "getjwks" =>
               (rev = "r1" /\ f.gets = <<DiscoveryPath>> /\ f.md # NIL /\ f.err = "none"))
        /\ (Len(f.gets) = 2 => (rev = "r1" /\ f.stage = "ret" /\ f.err # "badurl"))
        /\ (f.stage = "ret" =>
               \/ /\ f.err = "none"
                  /\ f.md # NIL
                  /\ (rev = "r1" => (f.ks # NIL /\ Len(f.gets) = 2))
                  /\ (rev = "r2" => (f.ks = NIL /\ Len(f.gets) = 1))
               \/ /\ f.err # "none"
                  /\ f.md = NIL
                  /\ f.ks = NIL)

\* a cycle whose discovery GET succeeded and whose JWKS GET failed returns
\* the error and neither value
C15_Witness ==
    /\ rev = "r1"
    /\ fl["refresh"].stage = "ret"
    /\ fl["refresh"].err = "transport"
    /\ Len(fl["refresh"].gets) = 2
    /\ fl["refresh"].md = NIL

\* C17: every GET the JWKS source issues is for the jwks_uri the discovery
\* document carried before the rewrite, never for the republished
\* self-referential jwks_uri.
C17_FetchesFromUpstreamURI ==
    /\ (rev = "r2" /\ pcMain \notin {"prime", "rewrite"} /\ metadata # NIL) =>
          /\ srcURL = UpstreamJWKSURI
          /\ heap[metadata].JWKSURI = URL(Issuer, JWKSPathR2)
          /\ srcURL # heap[metadata].JWKSURI
    /\ \A r \in Reqs :
          req[r].target # NoURL =>
              /\ req[r].target = UpstreamJWKSURI
              /\ req[r].target # URL(Issuer, JWKSPathR2)

\* a request was answered with keys GetJWKS fetched for it
C17_Witness ==
    \E r \in Reqs :
        /\ rev = "r2"
        /\ req[r].target = UpstreamJWKSURI
        /\ req[r].pc = "done"
        /\ req[r].resp.doc = "jwks"

\* C18: when ListenAndServe returns an error other than http.ErrServerClosed
\* the process has exited with status 1; the listener goroutine ends
\* otherwise only by a shutdown, and only then can main return with status 0.
C18_ListenerErrorExits ==
    rev = "r2" =>
        /\ (lg = "failed" => (pcMain = "exited" /\ exitCode = 1))
        /\ (lg = "returned" => inShutdown)
        /\ ((pcMain = "exited" /\ exitCode = 0) => lg = "returned")

\* the listener could not bind while no signal had arrived
C18_Witness ==
    /\ rev = "r2"
    /\ lg = "failed"
    /\ listener = "unbound"
    /\ ~signalled
    /\ exitCode = 1

\* C16: on a freshly created cache, whatever Set and Get calls concurrent
\* callers make, no Set call fails, and whenever no Set is in progress the
\* cache holds for every key the value of the most recent Set on it (nil if
\* it was never set), which is what a Get then returns.
C16_SetSucceedsGetReturnsLatest ==
    /\ \A c \in Callers : call[c].pc # "panicked"
    /\ \A c \in Callers : call[c].pc = "rlocked" => cmu.w = 0
    /\ cmu.w = 0 => \A k \in CacheKeys : MapIndex(cdata, k) = lastSet[k]
====
